---- MODULE Spec2Model ----
(***************************************************************************)
(* The BroadcastChannel bridge of @operaton/operaton-extension: the Host   *)
(* Responder (channel.onmessage, handleMessage, the three bundle getters   *)
(* with their module-level caches) together with its collaborators: the    *)
(* 'operaton-bridge' channel, window.fetch and window.localStorage, and    *)
(* with the other parties of the channel: the Worker Requester (its code   *)
(* is not part of the sources read here; it follows its written contract)  *)
(* and a second window of the same origin running the same extension.      *)
(*                                                                         *)
(* One onmessage task runs to completion; a handler started by it is       *)
(* suspended only at `await fetch(..)` and at `await response.text()`.      *)
(* Between these two awaits the handler reads and writes nothing shared,   *)
(* so the two are one suspension here, ended by the step Fetched; the      *)
(* continuation after it runs in the microtask checkpoint of the task that *)
(* settled the promise, atomically.                                        *)
(***************************************************************************)
EXTENDS Naturals, Sequences, FiniteSets

VARIABLES
    handlers,          \* one entry per message delivered to channel.onmessage, in arrival order
    sent,              \* the responses given to channel.postMessage, in order
    localStorage,      \* window.localStorage: stored key -> stored string, or Null when absent
    cache,             \* the three module-level bundle caches
    served,            \* what the static server holds at each bundle URL (fixed once read)
    fetchCount,        \* number of fetch(url) calls issued, per URL
    storageAvailable,  \* FALSE when every access to window.localStorage throws
    closed,            \* TRUE once the exposed channel object has been closed
    requester,         \* the Worker Requester: its calls, correlation table and messages in flight
    peer,              \* the responder of a second window attached to the same channel
    activation         \* what plugin.activate found and set up: the debug flags, the self-test

vars == <<handlers, sent, localStorage, cache, served, fetchCount, storageAvailable, closed,
          requester, peer, activation>>

----------------------------------------------------------------------------
(* Bounds of the model *)

\* number of messages delivered to the responder in one run
MaxMsgs == 3

\* number of fetch calls issued in one run
MaxFetches == 2

\* number of calls a Worker Requester makes in one run
MaxCalls == 2

----------------------------------------------------------------------------
(* JavaScript values *)

\* the value of a property an object does not have
Undefined == "<undefined>"
\* the null value (localStorage.getItem of an absent key, an empty cache)
Null == "<null>"
\* a bundle URL that has not been read yet
Unread == "<unread>"

\* ToBoolean on the values that occur here
Truthy(x) == x \notin {Undefined, Null, ""}

\* ToString, as applied by the Storage methods to their arguments and by a template literal
ToString(x) == IF x = Undefined THEN "undefined" ELSE IF x = Null THEN "null" ELSE x

----------------------------------------------------------------------------
(* Messages *)

Msg(a, r, k, v) == [isObject |-> TRUE, action |-> a, request_id |-> r, key |-> k, value |-> v]

\* a broadcast whose payload is null
NullData == [isObject |-> FALSE, action |-> Undefined, request_id |-> Undefined,
             key |-> Undefined, value |-> Undefined]

\* the correlation id the requester generates for its n-th request: unique per request
IdPool == <<"r1", "r2", "r3", "r4", "r5", "r6">>

BundleActions == {"get_bpmn_moddle_bundle", "get_dmn_moddle_bundle", "get_bpmn_js_differ_bundle"}
StoreActions == {"get_localstorage", "set_localstorage", "remove_localstorage", "get_localstorage_keys"}
RecognizedActions == BundleActions \cup StoreActions \cup {"ping"}

\* the actions of the documented table of supported actions
DocumentedActions ==
    {"get_bpmn_moddle_bundle", "get_dmn_moddle_bundle", "get_bpmn_js_differ_bundle",
     "get_localstorage", "set_localstorage", "remove_localstorage", "get_localstorage_keys"}

\* keys and values a requester puts in a store request (Undefined: the field is missing)
Keys == {"a", "", Undefined}
Values == {"v", ""}

\* broadcasts the responder does not take for a request: no action field (an empty
\* object included), an empty action, a null payload
Foreign == {Msg(Undefined, Undefined, Undefined, Undefined), Msg("", Undefined, Undefined, Undefined), NullData}

\* every action once, the store actions on one key and one value
AllActions ==
    {Msg(a, Undefined, Undefined, Undefined) :
        a \in BundleActions \cup {"get_localstorage_keys", "ping", "frobnicate"}}
    \cup {Msg("get_localstorage", Undefined, "a", Undefined), Msg("remove_localstorage", Undefined, "a", Undefined),
          Msg("set_localstorage", Undefined, "a", "v")}
    \cup Foreign

\* the recognized requests: the bundles, a store write and read, the liveness check
RecognizedRequests ==
    {Msg(a, Undefined, Undefined, Undefined) : a \in BundleActions \cup {"ping"}}
    \cup {Msg("get_localstorage", Undefined, "a", Undefined), Msg("set_localstorage", Undefined, "a", "v")}

\* the store actions on every key and value, next to one bundle and the liveness check
StoreRequests ==
    {Msg(a, Undefined, k, Undefined) : a \in {"get_localstorage", "remove_localstorage"}, k \in Keys}
    \cup {Msg("set_localstorage", Undefined, k, v) : k \in Keys, v \in Values}
    \cup {Msg(a, Undefined, Undefined, Undefined) :
            a \in {"get_localstorage_keys", "get_bpmn_moddle_bundle", "ping", "frobnicate"}}

\* the three assets next to a store write, the liveness check and an unknown action
AssetRequests ==
    {Msg(a, Undefined, Undefined, Undefined) : a \in BundleActions \cup {"ping", "frobnicate"}}
    \cup {Msg("set_localstorage", Undefined, "a", "v")}

\* requests delivered around the self-test: an asset, the liveness check, a store write
ActivationRequests ==
    {Msg("get_bpmn_moddle_bundle", Undefined, Undefined, Undefined),
     Msg("ping", Undefined, Undefined, Undefined), Msg("set_localstorage", Undefined, "a", "v")}

\* requests next to which unidentified broadcasts are delivered
EnvelopeRequests ==
    {Msg("get_bpmn_moddle_bundle", Undefined, Undefined, Undefined),
     Msg("get_localstorage", Undefined, "a", Undefined)}

\* broadcasts with an action and without a request_id field
Unidentified ==
    {Msg("ping", Undefined, Undefined, Undefined), Msg("set_localstorage", Undefined, "a", "v"),
     Msg("frobnicate", Undefined, Undefined, Undefined)}

\* the n-th broadcast: the requester tags its request with the n-th correlation id
Tagged(m, n) == IF m.isObject /\ m.action # Undefined THEN [m EXCEPT !.request_id = IdPool[n]] ELSE m

\* the keys window.localStorage can hold in this model
StoreKeys == {ToString(k) : k \in Keys}
\* localStorage.key(i) enumerates the stored keys in this order
KeyOrder == <<"a", "", "undefined">>

EmptyResponse == [action |-> Undefined, request_id |-> Undefined, bundle |-> Undefined,
                  key |-> Undefined, value |-> Undefined, keys |-> <<>>,
                  success |-> FALSE, error |-> Undefined]

----------------------------------------------------------------------------
(* Collaborators: the static server and window.localStorage *)

getExtensionStaticUrl(filename) ==
    LET base == ""   \* PageConfig.getBaseUrl() is "/", whose trailing slash is removed
    IN base \o "/extensions/@operaton/operaton-extension/static/" \o filename

\* the bodies a bundle URL can hold: the bundle's text, or an empty file
Bodies(url) == {"", "source of " \o url}

\* the message of the TypeError fetch() or response.text() rejects with
NetworkErrorMessage == "Failed to fetch"
QuotaErrorMessage == "The quota has been exceeded."
SecurityErrorMessage == "The operation is insecure."

getItem(store, key) == store[ToString(key)]
\* mutant: the key is stored as its own value
setItem_keyAsValue(store, key, value) == [store EXCEPT ![ToString(key)] = ToString(key)]
\* mutant: a write to a key that is stored already has no effect
setItem_firstWriteWins(store, key, value) ==
    IF store[ToString(key)] = Null THEN [store EXCEPT ![ToString(key)] = ToString(value)] ELSE store
setItem(store, key, value) == [store EXCEPT ![ToString(key)] = ToString(value)]
\* mutant: the whole store is cleared
removeItem_clear(store, key) == [k \in DOMAIN store |-> Null]
\* mutant: the key is left in the store
removeItem_kept(store, key) == store
removeItem(store, key) == [store EXCEPT ![ToString(key)] = Null]

RECURSIVE storedKeys(_, _)
\* the loop `for (i = 0; i < localStorage.length; i++) { key = localStorage.key(i); if (key) keys.push(key) }`
storedKeys(store, order) ==
    IF order = <<>> THEN <<>>
    ELSE LET key == Head(order)
             rest == storedKeys(store, Tail(order))
         IN IF store[key] # Null /\ Truthy(key) THEN <<key>> \o rest ELSE rest

----------------------------------------------------------------------------
(* The three bundle getters: the same code over a cache variable, a file and a label *)

getBpmnModdleBundle ==
    [cache |-> "bpmnModdleBundleCache", file |-> "bpmn-moddle.umd.js", label |-> "bpmn-moddle",
     kind |-> "bpmn_moddle_bundle"]
\* mutant: the dmn case answers with the kind of the bpmn case
getDmnModdleBundle_bpmnKind ==
    [cache |-> "dmnModdleBundleCache", file |-> "dmn-moddle.umd.js", label |-> "dmn-moddle",
     kind |-> "bpmn_moddle_bundle"]
getDmnModdleBundle ==
    [cache |-> "dmnModdleBundleCache", file |-> "dmn-moddle.umd.js", label |-> "dmn-moddle",
     kind |-> "dmn_moddle_bundle"]
\* mutant: the differ getter tests and fills the cache variable of the dmn getter
getBpmnJsDifferBundle_dmnCache ==
    [cache |-> "dmnModdleBundleCache", file |-> "bpmn-js-differ.umd.js", label |-> "bpmn-js-differ",
     kind |-> "bpmn_js_differ_bundle"]
getBpmnJsDifferBundle ==
    [cache |-> "bpmnJsDifferBundleCache", file |-> "bpmn-js-differ.umd.js", label |-> "bpmn-js-differ",
     kind |-> "bpmn_js_differ_bundle"]

\* the getter each bundle case of the switch calls
Getter(action) ==
    CASE action = "get_bpmn_moddle_bundle" -> getBpmnModdleBundle
      [] action = "get_dmn_moddle_bundle" -> getDmnModdleBundle
      [] action = "get_bpmn_js_differ_bundle" -> getBpmnJsDifferBundle

CacheNames == {Getter(a).cache : a \in BundleActions}
Urls == {getExtensionStaticUrl(Getter(a).file) : a \in BundleActions}

\* `if (cache) return cache;`
CacheHit(g) == Truthy(cache[g.cache])

\* mutant: response.ok is not tested
FetchFailure_unchecked(g, outcome) ==
    CASE outcome = "network_error" -> NetworkErrorMessage
      [] OTHER -> Null
\* `if (!response.ok) throw new Error(...)`: the message thrown, or Null to go on to response.text()
FetchFailure(g, outcome) ==
    CASE outcome = "http_error" -> "Failed to fetch " \o g.label \o " bundle: 404 Not Found"
      [] outcome = "network_error" -> NetworkErrorMessage
      [] outcome = "ok" -> Null

----------------------------------------------------------------------------
(* handleMessage *)

\* mutant: the request id is kept in a variable all handlers share
requestId_shared(i) == handlers[Len(handlers)].data.request_id
\* `const requestId = data.request_id`: a local of the handler, read when it responds
requestId(i) == handlers[i].data.request_id

\* mutant: the error response does not carry the message of the failure
ErrorResponse_noMessage(rid, message) ==
    [EmptyResponse EXCEPT !.action = "error", !.request_id = rid]
\* the catch clause: the error response
ErrorResponse(rid, message) ==
    [EmptyResponse EXCEPT !.action = "error", !.request_id = rid, !.error = message]

\* mutant: the bundle is left out of the response
BundleResponse_noBundle(g, rid, bundle) ==
    [EmptyResponse EXCEPT !.action = g.kind, !.request_id = rid]
BundleResponse(g, rid, bundle) ==
    [EmptyResponse EXCEPT !.action = g.kind, !.request_id = rid, !.bundle = bundle]

\* mutant: the message does not name the action
UnknownAction_unnamed(data) ==
    [EmptyResponse EXCEPT !.action = "error", !.request_id = data.request_id, !.error = "Unknown action"]
\* the default branch of the switch
UnknownAction(data) ==
    ErrorResponse(data.request_id, "Unknown action: " \o ToString(data.action))

\* mutant: the switch has no case for remove_localstorage, which falls to the default branch
SyncCase_noRemoveCase(data, store, quota) ==
    LET rid == data.request_id
        key == data.key
    IN CASE data.action \in (StoreActions \ {"remove_localstorage"}) /\ ~storageAvailable ->
              [response |-> ErrorResponse(rid, SecurityErrorMessage), store |-> store, threw |-> TRUE]
         [] data.action = "get_localstorage" /\ storageAvailable ->
              [response |-> [EmptyResponse EXCEPT !.action = "localstorage_value", !.request_id = rid,
                                                  !.key = key, !.value = getItem(store, key)],
               store |-> store, threw |-> FALSE]
         [] data.action = "set_localstorage" /\ storageAvailable /\ quota ->
              [response |-> ErrorResponse(rid, QuotaErrorMessage), store |-> store, threw |-> TRUE]
         [] data.action = "set_localstorage" /\ storageAvailable /\ ~quota ->
              [response |-> [EmptyResponse EXCEPT !.action = "localstorage_set", !.request_id = rid,
                                                  !.key = key, !.success = TRUE],
               store |-> setItem(store, key, data.value), threw |-> FALSE]
         [] data.action = "get_localstorage_keys" /\ storageAvailable ->
              [response |-> [EmptyResponse EXCEPT !.action = "localstorage_keys", !.request_id = rid,
                                                  !.keys = storedKeys(store, KeyOrder)],
               store |-> store, threw |-> FALSE]
         [] data.action = "ping" ->
              [response |-> [EmptyResponse EXCEPT !.action = "pong", !.request_id = rid],
               store |-> store, threw |-> FALSE]
         [] OTHER ->
              [response |-> UnknownAction(data), store |-> store, threw |-> FALSE]

\* the cases of the switch that do not await: the response, the store afterwards, and
\* whether the catch clause was taken. quota: localStorage.setItem throws QuotaExceededError.
SyncCase(data, store, quota) ==
    LET rid == data.request_id
        key == data.key
    IN CASE data.action \in StoreActions /\ ~storageAvailable ->
              [response |-> ErrorResponse(rid, SecurityErrorMessage), store |-> store, threw |-> TRUE]
         [] data.action = "get_localstorage" /\ storageAvailable ->
              [response |-> [EmptyResponse EXCEPT !.action = "localstorage_value", !.request_id = rid,
                                                  !.key = key, !.value = getItem(store, key)],
               store |-> store, threw |-> FALSE]
         [] data.action = "set_localstorage" /\ storageAvailable /\ quota ->
              [response |-> ErrorResponse(rid, QuotaErrorMessage), store |-> store, threw |-> TRUE]
         [] data.action = "set_localstorage" /\ storageAvailable /\ ~quota ->
              [response |-> [EmptyResponse EXCEPT !.action = "localstorage_set", !.request_id = rid,
                                                  !.key = key, !.success = TRUE],
               store |-> setItem(store, key, data.value), threw |-> FALSE]
         [] data.action = "remove_localstorage" /\ storageAvailable ->
              [response |-> [EmptyResponse EXCEPT !.action = "localstorage_removed", !.request_id = rid,
                                                  !.key = key, !.success = TRUE],
               store |-> removeItem(store, key), threw |-> FALSE]
         [] data.action = "get_localstorage_keys" /\ storageAvailable ->
              [response |-> [EmptyResponse EXCEPT !.action = "localstorage_keys", !.request_id = rid,
                                                  !.keys = storedKeys(store, KeyOrder)],
               store |-> store, threw |-> FALSE]
         [] data.action = "ping" ->
              [response |-> [EmptyResponse EXCEPT !.action = "pong", !.request_id = rid],
               store |-> store, threw |-> FALSE]
         [] OTHER ->
              [response |-> UnknownAction(data), store |-> store, threw |-> FALSE]

\* a new entry of the handler log; seen: how many responses had been sent when it arrived
Handler(data, pc, fetch, threw) ==
    [data |-> data, pc |-> pc, fetch |-> fetch, threw |-> threw, seen |-> Len(sent)]

\* mutant: the response is posted in the switch and again at the end
postMessage_twice(i, response, hs) ==
    /\ handlers' = [hs EXCEPT ![i].pc = "done"]
    /\ sent' = sent \o <<[by |-> i, msg |-> response], [by |-> i, msg |-> response]>>
\* mutant: a response waits until the handlers started earlier have ended
postMessage_afterPending(i, response, hs) ==
    IF \E k \in 1..(i - 1) : hs[k].pc = "await_fetch"
    THEN /\ handlers' = [hs EXCEPT ![i].pc = "queued"]
         /\ sent' = sent
    ELSE /\ handlers' = [hs EXCEPT ![i].pc = "done"]
         /\ sent' = Append(sent, [by |-> i, msg |-> response])
\* channel.postMessage(response), the last statement of handler i (hs: the handler log by then);
\* on a closed channel it throws, outside the try block, and the handler's promise rejects
postMessage(i, response, hs) ==
    IF closed
    THEN /\ handlers' = [hs EXCEPT ![i].pc = "rejected"]
         /\ sent' = sent
    ELSE /\ handlers' = [hs EXCEPT ![i].pc = "done"]
         /\ sent' = Append(sent, [by |-> i, msg |-> response])

\* mutant: only the payload is tested
Dispatched_anyObject(data) == data.isObject
\* `if (data && data.action)` of channel.onmessage
Dispatched(data) == data.isObject /\ Truthy(data.action)

\* channel.onmessage for a message that is not dispatched
Ignore(data) ==
    /\ handlers' = Append(handlers, Handler(data, "ignored", "none", FALSE))
    /\ UNCHANGED <<sent, localStorage, cache, served, fetchCount>>

\* number of fetch calls issued so far
Fetches == fetchCount[getExtensionStaticUrl(getBpmnModdleBundle.file)]
           + fetchCount[getExtensionStaticUrl(getDmnModdleBundle.file)]
           + fetchCount[getExtensionStaticUrl(getBpmnJsDifferBundle.file)]

\* handleMessage up to its first await, or to its end when it does not await
handleMessage(data) ==
    LET i == Len(handlers) + 1
    IN IF data.action \in BundleActions
       THEN LET g == Getter(data.action)
                url == getExtensionStaticUrl(g.file)
            IN IF CacheHit(g)
               THEN /\ postMessage(i, BundleResponse(g, data.request_id, cache[g.cache]),
                                   Append(handlers, Handler(data, "run", "none", FALSE)))
                    /\ UNCHANGED <<localStorage, cache, served, fetchCount>>
               ELSE /\ Fetches < MaxFetches
                    /\ handlers' = Append(handlers, Handler(data, "await_fetch", "pending", FALSE))
                    /\ fetchCount' = [fetchCount EXCEPT ![url] = @ + 1]
                    /\ UNCHANGED <<sent, localStorage, cache, served>>
       ELSE \E quota \in BOOLEAN :
               LET r == SyncCase(data, localStorage, quota)
               IN /\ quota => data.action = "set_localstorage" /\ storageAvailable
                  /\ postMessage(i, r.response, Append(handlers, Handler(data, "run", "none", r.threw)))
                  /\ localStorage' = r.store
                  /\ UNCHANGED <<cache, served, fetchCount>>

\* channel.onmessage, called with event.data = data
onmessage(data) ==
    /\ ~closed
    /\ Len(handlers) < MaxMsgs
    /\ IF Dispatched(data) THEN handleMessage(data) ELSE Ignore(data)
    /\ UNCHANGED <<storageAvailable, closed>>

\* the next broadcast, one of `palette` tagged by its requester, is delivered
OnMessage(palette) ==
    /\ \E m \in palette : onmessage(Tagged(m, Len(handlers) + 1))
    /\ UNCHANGED <<requester, peer, activation>>

\* a broadcast of other code on the channel, which carries no request_id, is delivered
OnUnidentified ==
    /\ \E m \in Unidentified : onmessage(m)
    /\ UNCHANGED <<requester, peer, activation>>

\* mutant: a fetch that failed is issued again, as long as fewer than MaxFetches were issued
Fetched_retries(i) ==
    /\ i \in 1..Len(handlers)
    /\ handlers[i].pc = "await_fetch"
    /\ \E outcome \in {"ok", "http_error", "network_error"} :
          LET g == Getter(handlers[i].data.action)
              url == getExtensionStaticUrl(g.file)
              failure == FetchFailure(g, outcome)
              hs == [handlers EXCEPT ![i].fetch = outcome]
          IN IF failure = Null
             THEN \E body \in (IF served[url] = Unread THEN Bodies(url) ELSE {served[url]}) :
                     /\ served' = [served EXCEPT ![url] = body]
                     /\ cache' = [cache EXCEPT ![g.cache] = body]
                     /\ postMessage(i, BundleResponse(g, requestId(i), cache'[g.cache]), hs)
                     /\ fetchCount' = fetchCount
             ELSE IF Fetches < MaxFetches
                  THEN /\ fetchCount' = [fetchCount EXCEPT ![url] = @ + 1]
                       /\ UNCHANGED <<handlers, sent, served, cache>>
                  ELSE /\ postMessage(i, ErrorResponse(requestId(i), failure),
                                      [hs EXCEPT ![i].threw = TRUE])
                       /\ UNCHANGED <<served, cache, fetchCount>>
    /\ UNCHANGED <<localStorage, storageAvailable, closed, requester, peer, activation>>

\* mutant: the failure of a fetch is kept in the cache variable of its getter
Fetched_cachesFailure(i) ==
    /\ i \in 1..Len(handlers)
    /\ handlers[i].pc = "await_fetch"
    /\ \E outcome \in {"ok", "http_error", "network_error"} :
          LET g == Getter(handlers[i].data.action)
              url == getExtensionStaticUrl(g.file)
              failure == FetchFailure(g, outcome)
              hs == [handlers EXCEPT ![i].fetch = outcome]
          IN IF failure = Null
             THEN \E body \in (IF served[url] = Unread THEN Bodies(url) ELSE {served[url]}) :
                     /\ served' = [served EXCEPT ![url] = body]
                     /\ cache' = [cache EXCEPT ![g.cache] = body]
                     /\ postMessage(i, BundleResponse(g, requestId(i), cache'[g.cache]), hs)
             ELSE /\ postMessage(i, ErrorResponse(requestId(i), failure), [hs EXCEPT ![i].threw = TRUE])
                  /\ cache' = [cache EXCEPT ![g.cache] = failure]
                  /\ UNCHANGED served
    /\ UNCHANGED <<localStorage, fetchCount, storageAvailable, closed, requester, peer, activation>>

\* mutant: a failed fetch resets the cache variable of its getter
Fetched_clearsOnFailure(i) ==
    /\ i \in 1..Len(handlers)
    /\ handlers[i].pc = "await_fetch"
    /\ \E outcome \in {"ok", "http_error", "network_error"} :
          LET g == Getter(handlers[i].data.action)
              url == getExtensionStaticUrl(g.file)
              failure == FetchFailure(g, outcome)
              hs == [handlers EXCEPT ![i].fetch = outcome]
          IN IF failure = Null
             THEN \E body \in (IF served[url] = Unread THEN Bodies(url) ELSE {served[url]}) :
                     /\ served' = [served EXCEPT ![url] = body]
                     /\ cache' = [cache EXCEPT ![g.cache] = body]
                     /\ postMessage(i, BundleResponse(g, requestId(i), cache'[g.cache]), hs)
             ELSE /\ postMessage(i, ErrorResponse(requestId(i), failure), [hs EXCEPT ![i].threw = TRUE])
                  /\ cache' = [cache EXCEPT ![g.cache] = Null]
                  /\ UNCHANGED served
    /\ UNCHANGED <<localStorage, fetchCount, storageAvailable, closed, requester, peer, activation>>

\* the fetch of handler i settles (fetch(bundleUrl), then response.text()) and the handler
\* runs to its end
Fetched(i) ==
    /\ i \in 1..Len(handlers)
    /\ handlers[i].pc = "await_fetch"
    /\ \E outcome \in {"ok", "http_error", "network_error"} :
          LET g == Getter(handlers[i].data.action)
              url == getExtensionStaticUrl(g.file)
              failure == FetchFailure(g, outcome)
              hs == [handlers EXCEPT ![i].fetch = outcome]
          IN IF failure = Null
             THEN \E body \in (IF served[url] = Unread THEN Bodies(url) ELSE {served[url]}) :
                     /\ served' = [served EXCEPT ![url] = body]
                     /\ cache' = [cache EXCEPT ![g.cache] = body]
                     /\ postMessage(i, BundleResponse(g, requestId(i), cache'[g.cache]), hs)
             ELSE /\ postMessage(i, ErrorResponse(requestId(i), failure), [hs EXCEPT ![i].threw = TRUE])
                  /\ UNCHANGED <<served, cache>>
    /\ UNCHANGED <<localStorage, fetchCount, storageAvailable, closed, requester, peer, activation>>

\* other code of the page closes the channel through window.__operatonBridgeChannel
CloseChannel ==
    /\ ~closed
    /\ closed' = TRUE
    /\ UNCHANGED <<handlers, sent, localStorage, cache, served, fetchCount, storageAvailable,
                   requester, peer, activation>>

----------------------------------------------------------------------------
(* The Worker Requester, after its contract: one asynchronous call per operation *)

\* the operations the worker calls: an asset, the liveness check, an operation the
\* responder does not know
RequesterCalls ==
    {Msg(a, Undefined, Undefined, Undefined) : a \in {"get_bpmn_moddle_bundle", "ping", "frobnicate"}}

\* the message of the timeout error
TimeoutErrorMessage == "Request timed out"

\* the position of a correlation id in the order the requester generates them
IdIndex(id) == CHOOSE n \in 1..Len(IdPool) : IdPool[n] = id

\* a call that has just been made; concurrent: the entries pending at that moment
PendingCall(data) ==
    [request |-> data, state |-> "pending", result |-> Null, error |-> Null,
     concurrent |-> requester.table]

\* mutant: a response settles the oldest pending entry, whatever its id
Entry_oldest(table, response) ==
    IF table = {} THEN Null
    ELSE CHOOSE id \in table : \A other \in table : IdIndex(id) <= IdIndex(other)
\* the correlation-table entry a response settles: the one under the response's request_id
Entry(table, response) == IF response.request_id \in table THEN response.request_id ELSE Null

\* mutant: the call fails with a message of the requester's own
Rejection_generic(response) == "Request failed"
\* the message a call fails with when its response has the generic error kind
Rejection(response) == response.error

\* the calls after the call registered under id has been settled by a response
Resolve(calls, id, response) ==
    [calls EXCEPT ![IdIndex(id)] =
        IF response.action = "error"
        THEN [@ EXCEPT !.state = "rejected", !.error = Rejection(response)]
        ELSE [@ EXCEPT !.state = "resolved", !.result = response]]

\* a call: generate a fresh correlation id, register the pending handle, broadcast the request
Send(m) ==
    /\ Len(requester.calls) < MaxCalls
    /\ LET data == Tagged(m, Len(requester.calls) + 1)
       IN requester' = [requester EXCEPT !.calls = Append(@, PendingCall(data)),
                                         !.table = @ \cup {data.request_id},
                                         !.outbox = Append(@, data)]
    /\ UNCHANGED <<handlers, sent, localStorage, cache, served, fetchCount, storageAvailable,
                   closed, peer, activation>>

\* the channel delivers the oldest request in flight to the responder
Delivered ==
    /\ requester.outbox # <<>>
    /\ onmessage(Head(requester.outbox))
    /\ requester' = [requester EXCEPT !.outbox = Tail(@)]
    /\ UNCHANGED <<peer, activation>>

\* the oldest request in flight reaches no responder
RequestLost ==
    /\ requester.outbox # <<>>
    /\ requester' = [requester EXCEPT !.outbox = Tail(@)]
    /\ UNCHANGED <<handlers, sent, localStorage, cache, served, fetchCount, storageAvailable,
                   closed, peer, activation>>

\* the channel delivers response n to the requester, in any order; a response that is
\* never delivered is lost
Receive(n) ==
    /\ n \in 1..Len(sent)
    /\ \A x \in 1..Len(requester.received) : requester.received[x] # n
    /\ LET response == sent[n].msg
           id == Entry(requester.table, response)
       IN requester' = [requester EXCEPT !.received = Append(@, n),
                                         !.calls = IF id = Null THEN @ ELSE Resolve(@, id, response),
                                         !.table = @ \ {id}]
    /\ UNCHANGED <<handlers, sent, localStorage, cache, served, fetchCount, storageAvailable,
                   closed, peer, activation>>

\* mutant: the call fails and its entry stays in the table
Timeout_entryKept(id) ==
    /\ id \in requester.table
    /\ requester.calls[IdIndex(id)].state = "pending"
    /\ requester' = [requester EXCEPT !.calls[IdIndex(id)].state = "rejected",
                                      !.calls[IdIndex(id)].error = TimeoutErrorMessage]
    /\ UNCHANGED <<handlers, sent, localStorage, cache, served, fetchCount, storageAvailable,
                   closed, peer, activation>>
\* the timeout of the pending entry id elapses: the call fails with the timeout error
\* and the entry is removed
Timeout(id) ==
    /\ id \in requester.table
    /\ requester' = [requester EXCEPT !.calls[IdIndex(id)].state = "rejected",
                                      !.calls[IdIndex(id)].error = TimeoutErrorMessage,
                                      !.table = @ \ {id}]
    /\ UNCHANGED <<handlers, sent, localStorage, cache, served, fetchCount, storageAvailable,
                   closed, peer, activation>>

----------------------------------------------------------------------------
(* A second window of the same origin: its extension listens on the same channel *)

\* the requests broadcast while two responders are attached: none of them awaits
PeerRequests ==
    {Msg("ping", Undefined, Undefined, Undefined), Msg("frobnicate", Undefined, Undefined, Undefined),
     Msg("set_localstorage", Undefined, "a", "v")}

\* the action fields of the responses handleMessage builds
ResponseKinds ==
    {"bpmn_moddle_bundle", "dmn_moddle_bundle", "bpmn_js_differ_bundle", "localstorage_value",
     "localstorage_set", "localstorage_removed", "localstorage_keys", "pong", "error"}

\* event.data of a delivered response, as onmessage and handleMessage read it
AsData(response) == Msg(response.action, response.request_id, response.key, response.value)

\* an entry of this responder's log that is a request of a requester
IsRequest(h) == h.data.action \notin ResponseKinds

\* an entry of the peer's log for which the peer broadcast a response
IsAnswered(h) == h.answered

\* the responses the peer has broadcast, in order
PeerSent == SelectSeq(peer.handled, IsAnswered)

\* channel.onmessage of the peer for event.data = data, with its cursors moved by
\* dr requests and ds responses of this responder: the same code over the same
\* localStorage, for messages whose handler does not await
PeerOnMessage(data, dr, ds) ==
    /\ Len(peer.handled) < MaxMsgs
    /\ data.action \notin BundleActions
    /\ IF Dispatched(data)
       THEN LET r == SyncCase(data, localStorage, FALSE)
            IN /\ peer' = [peer EXCEPT !.handled = Append(@, [data |-> data, answered |-> TRUE,
                                                               response |-> r.response]),
                                       !.requests = @ + dr, !.responses = @ + ds]
               /\ localStorage' = r.store
       ELSE /\ peer' = [peer EXCEPT !.handled = Append(@, [data |-> data, answered |-> FALSE,
                                                            response |-> EmptyResponse]),
                                    !.requests = @ + dr, !.responses = @ + ds]
            /\ localStorage' = localStorage
    /\ UNCHANGED <<handlers, sent, cache, served, fetchCount, storageAvailable, closed, requester,
                   activation>>

\* the channel delivers to the peer the next request this responder has received too
PeerOnRequest ==
    LET requests == SelectSeq(handlers, IsRequest)
    IN /\ peer.requests < Len(requests)
       /\ PeerOnMessage(requests[peer.requests + 1].data, 1, 0)

\* the channel delivers to the peer the next response this responder has broadcast
PeerOnResponse ==
    /\ peer.responses < Len(sent)
    /\ PeerOnMessage(AsData(sent[peer.responses + 1].msg), 0, 1)

\* the channel delivers to this responder the next response the peer has broadcast
OnPeerResponse ==
    /\ peer.delivered < Len(PeerSent)
    /\ onmessage(AsData(PeerSent[peer.delivered + 1].response))
    /\ peer' = [peer EXCEPT !.delivered = @ + 1]
    /\ UNCHANGED <<requester, activation>>

----------------------------------------------------------------------------
(* plugin.activate: the debug flag and the self-test *)

\* the values of the localStorage item 'operaton-debug' when the plugin is activated
DebugItems == {Null, "true", "false", "1"}

\* the message the self-test posts on its own channel object
SelfTestPing == Msg("ping", "self-test", Undefined, Undefined)

\* mutant: any stored value of the item enables debugging
DEBUG_anyItem(debugBuild, item) ==
    IF debugBuild THEN TRUE
    ELSE IF storageAvailable THEN item # Null ELSE FALSE
\* DEBUG(): the build flag, or the item 'operaton-debug' being 'true'; false when the
\* store cannot be read
DEBUG(debugBuild, item) ==
    IF debugBuild THEN TRUE
    ELSE IF storageAvailable THEN item = "true" ELSE FALSE

\* the outcome of plugin.activate under build flag debugBuild and stored item `item`:
\* the self-test timer is set only `if (DEBUG())`
Activation(debugBuild, item) ==
    [DEBUG_BUILD |-> debugBuild, item |-> item,
     selfTest |-> IF DEBUG(debugBuild, item) THEN "scheduled" ELSE "none",
     posted |-> 0,      \* ghost: how many messages testChannel has posted
     handler |-> 0]     \* ghost: the handler started for the self-test message, 0 if none

\* the timer of the self-test fires: testChannel.postMessage({action: 'ping', request_id: 'self-test'})
SelfTestTimeout ==
    /\ activation.selfTest = "scheduled"
    /\ activation' = [activation EXCEPT !.selfTest = "posted", !.posted = @ + 1]
    /\ UNCHANGED <<handlers, sent, localStorage, cache, served, fetchCount, storageAvailable,
                   closed, requester, peer>>

\* the channel delivers the self-test message to the responder's channel object
SelfTestDelivered ==
    /\ activation.selfTest = "posted"
    /\ onmessage(SelfTestPing)
    /\ activation' = [activation EXCEPT !.selfTest = "delivered", !.handler = Len(handlers) + 1]
    /\ UNCHANGED <<requester, peer>>

\* a request is delivered, room being left in the run for the self-test message
OnRequest ==
    /\ activation.selfTest \in {"none", "delivered"} \/ Len(handlers) + 1 < MaxMsgs
    /\ OnMessage(ActivationRequests)

----------------------------------------------------------------------------
(* Specifications *)

Activated ==
    /\ handlers = <<>>
    /\ sent = <<>>
    /\ localStorage = [k \in StoreKeys |-> Null]
    /\ cache = [c \in CacheNames |-> Null]
    /\ served = [u \in Urls |-> Unread]
    /\ fetchCount = [u \in Urls |-> 0]
    /\ closed = FALSE
    /\ requester = [calls |-> <<>>, table |-> {}, outbox |-> <<>>, received |-> <<>>]
    /\ peer = [handled |-> <<>>, requests |-> 0, responses |-> 0, delivered |-> 0]

\* a production build with no debug item stored: DEBUG() is false, no self-test is set up
Init == Activated /\ storageAvailable = TRUE /\ activation = Activation(FALSE, Null)

Settle == \E i \in 1..MaxMsgs : Fetched(i)

Next == OnMessage(AllActions) \/ Settle

\* the responder with its channel left open, as the extension itself leaves it
Spec == Init /\ [][Next]_vars

FairNext == OnMessage(RecognizedRequests) \/ Settle

\* the responder under recognized requests, the fetch of every suspended handler settling
FairSpec == Init /\ [][FairNext]_vars /\ WF_vars(Settle)

ClosingNext == Next \/ CloseChannel

\* the responder on a channel that other code of the page may close
ClosingSpec == Init /\ [][ClosingNext]_vars

StoreInit == Activated /\ storageAvailable \in BOOLEAN /\ activation = Activation(FALSE, Null)

StoreNext == OnMessage(StoreRequests) \/ Settle

\* the same responder under store traffic on every key and value, the store accessible or not
StoreSpec == StoreInit /\ [][StoreNext]_vars

AssetNext == OnMessage(AssetRequests) \/ Settle

\* the responder under asset traffic mixed with requests that do not await
AssetSpec == Init /\ [][AssetNext]_vars

ActivationInit ==
    /\ Activated
    /\ storageAvailable \in BOOLEAN
    /\ \E debugBuild \in BOOLEAN, item \in DebugItems :
          /\ ~storageAvailable => item = Null
          /\ activation = Activation(debugBuild, item)

ActivationNext == OnRequest \/ Settle \/ SelfTestTimeout \/ SelfTestDelivered

\* the plugin activated under every build flag and stored debug item, then serving requests
ActivationSpec == ActivationInit /\ [][ActivationNext]_vars

\* the same, the self-test timer firing and its message being delivered
FairActivationSpec ==
    ActivationSpec /\ WF_vars(SelfTestTimeout) /\ WF_vars(SelfTestDelivered)

EnvelopeNext == OnMessage(EnvelopeRequests) \/ OnUnidentified \/ Settle

\* the responder on a channel that carries broadcasts without a request_id
EnvelopeSpec == Init /\ [][EnvelopeNext]_vars

Expire == \E n \in 1..MaxCalls : Timeout(IdPool[n])

RequesterNext ==
    \/ \E m \in RequesterCalls : Send(m)
    \/ Delivered
    \/ RequestLost
    \/ Settle
    \/ \E n \in 1..MaxCalls : Receive(n)
    \/ Expire

\* a Worker Requester and the responder on a channel that may lose messages
RequesterSpec == Init /\ [][RequesterNext]_vars

\* the same, every timeout of a pending entry elapsing
FairRequesterSpec == RequesterSpec /\ WF_vars(Expire)

PeerNext == OnMessage(PeerRequests) \/ PeerOnRequest \/ PeerOnResponse \/ OnPeerResponse

\* two responders attached to the channel, in two windows of one origin
PeerSpec == Init /\ [][PeerNext]_vars

----------------------------------------------------------------------------
(* Reading the logs *)

\* the handlers started so far
Started == 1..Len(handlers)

\* the positions in `sent` of the responses handler i posted
Responses(i) == {n \in 1..Len(sent) : sent[n].by = i}

\* the request handler i was started for
Request(i) == handlers[i].data

\* a broadcast that carries no action: no action field, or no object at all
NoAction(data) == ~data.isObject \/ data.action = Undefined

\* the success kind of each recognized action (Null: the action has none)
SuccessKind(action) ==
    CASE action = "get_bpmn_moddle_bundle" -> "bpmn_moddle_bundle"
      [] action = "get_dmn_moddle_bundle" -> "dmn_moddle_bundle"
      [] action = "get_bpmn_js_differ_bundle" -> "bpmn_js_differ_bundle"
      [] action = "get_localstorage" -> "localstorage_value"
      [] action = "set_localstorage" -> "localstorage_set"
      [] action = "remove_localstorage" -> "localstorage_removed"
      [] action = "get_localstorage_keys" -> "localstorage_keys"
      [] action = "ping" -> "pong"
      [] OTHER -> Null

----------------------------------------------------------------------------
(* C1 *)

\* C1: every received broadcast that carries an action (one onmessage dispatches: the
\* action is a non-empty string) has exactly one response once its handler has run to
\* its end and none while the handler is suspended, never two; a broadcast that is not
\* dispatched has none; and every response sent belongs to a received, dispatched request.
C1_ExactlyOneResponse ==
    /\ \A n \in 1..Len(sent) : sent[n].by \in Started /\ Dispatched(Request(sent[n].by))
    /\ \A i \in Started :
          Cardinality(Responses(i)) =
              IF Dispatched(Request(i)) /\ handlers[i].pc # "await_fetch" THEN 1 ELSE 0

\* a handler that was suspended at its fetch has answered, after a later request was answered
C1_Witness ==
    \E i \in Started, n \in 1..Len(sent) :
        /\ handlers[i].fetch = "ok" /\ handlers[i].pc = "done"
        /\ sent[n].by = i /\ n > 1

----------------------------------------------------------------------------
(* C2 *)

\* C2: every response carries the request_id of the request whose handler posted it,
\* success and error responses alike, whatever arrived while that handler was suspended.
C2_EchoesRequestId ==
    \A n \in 1..Len(sent) :
        sent[n].by \in Started /\ sent[n].msg.request_id = Request(sent[n].by).request_id

\* two handlers were suspended at once, the first answered with an error after the second
\* had arrived, the second with a success
C2_Witness ==
    \E n, m \in 1..Len(sent) :
        /\ sent[n].by < sent[m].by
        /\ handlers[sent[n].by].fetch \in {"http_error", "network_error"}
        /\ handlers[sent[m].by].fetch = "ok"
        /\ n > handlers[sent[m].by].seen
        /\ sent[n].msg.action = "error" /\ sent[m].msg.action # "error"

----------------------------------------------------------------------------
(* C3 *)

\* handler i has broadcast the success response of its action with its request's id and,
\* for a bundle, the text served at the bundle's URL
Succeeded(i) ==
    /\ i \in Started
    /\ \E n \in Responses(i) :
          /\ sent[n].msg.action = SuccessKind(Request(i).action)
          /\ sent[n].msg.request_id = Request(i).request_id
          /\ Request(i).action \in BundleActions =>
                sent[n].msg.bundle = served[getExtensionStaticUrl(Getter(Request(i).action).file)]

\* the handler of request i raised a failure (its catch clause ran)
Failed(i) == i \in Started /\ handlers[i].threw

\* C3: every received request with a recognized action is eventually answered with the
\* success response of that action, carrying the result and the request's id, unless its
\* handler fails. Responses are never taken back, so this is: again and again, every
\* request received so far whose handler has not failed has its success response.
C3_SuccessEventuallyBroadcast ==
    []<>(\A i \in Started :
            Dispatched(Request(i)) /\ Request(i).action \in RecognizedActions =>
                Succeeded(i) \/ Failed(i))

\* a request suspended at its fetch while another arrived has been answered with the bundle
C3_Witness ==
    \E i, j \in Started :
        /\ handlers[i].fetch = "ok" /\ Succeeded(i)
        /\ j > i
        /\ \A n \in Responses(i) : handlers[j].seen < n

----------------------------------------------------------------------------
(* C4 *)

\* C4: a dispatched request whose action is not a recognized operation has a response of
\* kind 'error' whose message names the action and whose request_id is the request's.
C4_UnknownActionAnswered ==
    \A i \in Started :
        Dispatched(Request(i)) /\ Request(i).action \notin RecognizedActions =>
            \E n \in Responses(i) :
                /\ sent[n].msg.action = "error"
                /\ sent[n].msg.error = "Unknown action: " \o Request(i).action
                /\ sent[n].msg.request_id = Request(i).request_id

\* an unrecognized action has been received and answered
C4_Witness ==
    \E i \in Started :
        /\ Request(i).action = "frobnicate"
        /\ \E n \in Responses(i) : sent[n].msg.error = "Unknown action: frobnicate"

----------------------------------------------------------------------------
(* C5 *)

\* C5: a request whose fetch failed (a network failure or a non-2xx status) has exactly
\* one response: the error response with the failure's message and the request's id, and
\* no bundle.
C5_FetchFailureIsError ==
    \A i \in Started :
        handlers[i].fetch \in {"http_error", "network_error"} =>
            /\ Cardinality(Responses(i)) = 1
            /\ \A n \in Responses(i) :
                  /\ sent[n].msg.action = "error"
                  /\ sent[n].msg.request_id = Request(i).request_id
                  /\ sent[n].msg.bundle = Undefined
                  /\ Truthy(sent[n].msg.error)
                  /\ handlers[i].fetch = "network_error" => sent[n].msg.error = NetworkErrorMessage
                  /\ handlers[i].fetch = "http_error" =>
                        sent[n].msg.error \in {"Failed to fetch bpmn-moddle bundle: 404 Not Found",
                                               "Failed to fetch dmn-moddle bundle: 404 Not Found",
                                               "Failed to fetch bpmn-js-differ bundle: 404 Not Found"}

\* one fetch ended with a non-2xx status and another with a network failure
C5_Witness ==
    \E i, j \in Started :
        /\ handlers[i].fetch = "http_error" /\ handlers[i].pc = "done"
        /\ handlers[j].fetch = "network_error" /\ handlers[j].pc = "done"

----------------------------------------------------------------------------
(* C6 *)

\* C6: no handling ends in an unhandled failure: every dispatched request whose handler is
\* not suspended has a response, also when the broadcast send itself fails.
C6_NoFailureEscapes ==
    \A i \in Started :
        /\ handlers[i].pc # "rejected"
        /\ Dispatched(Request(i)) /\ handlers[i].pc # "await_fetch" => Responses(i) # {}

----------------------------------------------------------------------------
(* C7 *)

\* C7: at most one fetch is ever issued per asset.
C7_AtMostOneFetch == \A u \in Urls : fetchCount[u] <= 1

----------------------------------------------------------------------------
(* C8 *)

\* C8: when a request for an asset arrives after an earlier request for the same asset
\* was answered successfully, it issues no fetch and is answered with the same content.
C8_Memoized ==
    \A i, j \in Started :
        /\ i < j
        /\ Request(i).action \in BundleActions
        /\ Request(j).action = Request(i).action
        /\ Dispatched(Request(j))
        => \A n \in Responses(i) :
              sent[n].msg.action # "error" /\ n <= handlers[j].seen =>
                  /\ handlers[j].fetch = "none"
                  /\ \A m \in Responses(j) : sent[m].msg.bundle = sent[n].msg.bundle

----------------------------------------------------------------------------
(* C9 *)

\* the step is the delivery of a broadcast that carries no action
IgnoredDelivery ==
    /\ Len(handlers') = Len(handlers) + 1
    /\ NoAction(handlers'[Len(handlers')].data)

\* C9: a broadcast without an action field, or with a null or empty payload, gets no
\* response and raises no failure; its delivery changes neither the store nor the caches
\* nor issues a fetch; and a request handled after it is answered as usual.
C9_NoActionIgnored ==
    /\ [](\A i \in Started :
            NoAction(Request(i)) =>
                /\ Responses(i) = {}
                /\ handlers[i].pc = "ignored"
                /\ \A j \in Started :
                      j > i /\ Dispatched(Request(j)) /\ handlers[j].pc # "await_fetch" =>
                          Cardinality(Responses(j)) = 1)
    /\ [][IgnoredDelivery =>
            /\ sent' = sent
            /\ localStorage' = localStorage
            /\ cache' = cache
            /\ fetchCount' = fetchCount]_vars

\* an empty object and a null payload were ignored, and a later request was answered
C9_Witness ==
    \E i, j, k \in Started :
        /\ i < k /\ j < k
        /\ Request(i) = Msg(Undefined, Undefined, Undefined, Undefined)
        /\ Request(j) = NullData
        /\ Request(k).action = "ping"
        /\ Responses(k) # {}

----------------------------------------------------------------------------
(* C10 *)

\* request i is a store write of string key k and string value v, acknowledged with success
WriteHandled(i, k, v) ==
    /\ Request(i).action = "set_localstorage"
    /\ Request(i).key = k /\ Request(i).value = v
    /\ \E n \in Responses(i) : sent[n].msg.action = "localstorage_set" /\ sent[n].msg.success

\* request i is a write or a delete of key k
Mutates(i, k) ==
    /\ Request(i).action \in {"set_localstorage", "remove_localstorage"}
    /\ ToString(Request(i).key) = ToString(k)

\* C10: a read of string key k handled after an acknowledged write of string value v to
\* k, with no write or delete of k handled in between, is answered with key k and value v;
\* this holds for the very next request as for any later one.
C10_WriteThenRead ==
    \A i, j \in Started : \A k \in Keys \ {Undefined} : \A v \in Values :
        /\ i < j
        /\ WriteHandled(i, k, v)
        /\ Request(j).action = "get_localstorage" /\ Request(j).key = k
        /\ \A l \in Started : i < l /\ l < j => ~Mutates(l, k)
        => /\ Cardinality(Responses(j)) = 1
           /\ \A n \in Responses(j) :
                 /\ sent[n].msg.action = "localstorage_value"
                 /\ sent[n].msg.key = k
                 /\ sent[n].msg.value = v
                 /\ sent[n].msg.request_id = Request(j).request_id

\* a value written to a key was read back by the next request, and again after a write
\* to another key
C10_Witness ==
    \E i \in Started :
        /\ i + 2 \in Started
        /\ WriteHandled(i, "a", "v")
        /\ Request(i + 1).action = "set_localstorage" /\ Request(i + 1).key = ""
        /\ Request(i + 2).action = "get_localstorage" /\ Request(i + 2).key = "a"
        /\ \E n \in Responses(i + 2) : sent[n].msg.value = "v"

----------------------------------------------------------------------------
(* C11 *)

\* request i is a delete of key k, acknowledged with success
DeleteHandled(i, k) ==
    /\ Request(i).action = "remove_localstorage"
    /\ Request(i).key = k
    /\ \E n \in Responses(i) :
          /\ sent[n].msg.action = "localstorage_removed"
          /\ sent[n].msg.success
          /\ sent[n].msg.request_id = Request(i).request_id

\* request i is a write to key k
Writes(i, k) ==
    Request(i).action = "set_localstorage" /\ ToString(Request(i).key) = ToString(k)

\* C11: a read of key k handled after an acknowledged delete of k, with no write of k
\* handled in between, is answered with a null value, whether k was stored before the
\* delete or not; and every delete the store accepts, of an absent key too, is answered
\* with the success acknowledgement.
C11_DeleteThenRead ==
    /\ \A i, j \in Started : \A k \in Keys :
          /\ i < j
          /\ DeleteHandled(i, k)
          /\ Request(j).action = "get_localstorage" /\ Request(j).key = k
          /\ \A l \in Started : i < l /\ l < j => ~Writes(l, k)
          => /\ Cardinality(Responses(j)) = 1
             /\ \A n \in Responses(j) :
                   sent[n].msg.action = "localstorage_value" /\ sent[n].msg.value = Null
    /\ \A i \in Started :
          Request(i).action = "remove_localstorage" /\ storageAvailable =>
              DeleteHandled(i, Request(i).key)

\* a key was written, deleted and read as null, the delete acknowledged
C11_Witness ==
    \E i \in Started :
        /\ i + 2 \in Started
        /\ WriteHandled(i, "a", "v")
        /\ DeleteHandled(i + 1, "a")
        /\ Request(i + 2).action = "get_localstorage" /\ Request(i + 2).key = "a"
        /\ \E n \in Responses(i + 2) : sent[n].msg.value = Null

----------------------------------------------------------------------------
(* C12 *)

\* request i is a write acknowledged with success
WriteAcknowledged(i) ==
    /\ Request(i).action = "set_localstorage"
    /\ \E n \in Responses(i) : sent[n].msg.action = "localstorage_set"

\* request i is a delete acknowledged with success
DeleteAcknowledged(i) ==
    /\ Request(i).action = "remove_localstorage"
    /\ \E n \in Responses(i) : sent[n].msg.action = "localstorage_removed"

\* the keys written and not deleted since, when request j is handled
StoredBefore(j) ==
    {ToString(Request(i).key) :
        i \in {i \in 1..(j - 1) :
                 /\ WriteAcknowledged(i)
                 /\ \A l \in (i + 1)..(j - 1) :
                       ~(DeleteAcknowledged(l) /\ ToString(Request(l).key) = ToString(Request(i).key))}}

\* the elements of a sequence
Range(seq) == {seq[x] : x \in 1..Len(seq)}

\* C12: the answer to list-stored-keys holds every key written and not yet deleted when
\* the request is handled, each exactly once, and no other key, the empty string included.
C12_KeysListed ==
    \A j \in Started :
        Request(j).action = "get_localstorage_keys" =>
            \A n \in Responses(j) :
                sent[n].msg.action = "localstorage_keys" =>
                    /\ Range(sent[n].msg.keys) = StoredBefore(j)
                    /\ Len(sent[n].msg.keys) = Cardinality(StoredBefore(j))

----------------------------------------------------------------------------
(* C13 *)

\* C13: every action of the documented table is a case of the responder's switch: a
\* request with such an action is never answered with the 'Unknown action' error, and
\* when its handler has ended without a failure its one response has the success kind
\* of that action.
C13_DocumentedActionsRecognized ==
    /\ DocumentedActions \subseteq RecognizedActions
    /\ \A i \in Started :
          Request(i).action \in DocumentedActions =>
              /\ \A n \in Responses(i) :
                    sent[n].msg.error # "Unknown action: " \o Request(i).action
              /\ handlers[i].pc = "done" /\ ~Failed(i) =>
                    /\ Responses(i) # {}
                    /\ \A n \in Responses(i) :
                          sent[n].msg.action = SuccessKind(Request(i).action)

\* a documented bundle action was answered after its fetch, and a documented store
\* action at once, both with their success responses
C13_Witness ==
    \E i, j \in Started :
        /\ Request(i).action = "get_bpmn_js_differ_bundle" /\ handlers[i].fetch = "ok"
        /\ \E n \in Responses(i) : sent[n].msg.action = "bpmn_js_differ_bundle"
        /\ Request(j).action = "remove_localstorage"
        /\ \E n \in Responses(j) : sent[n].msg.action = "localstorage_removed"

----------------------------------------------------------------------------
(* C14 *)

\* C14: a received broadcast that lacks an action or a request_id is ignored: onmessage
\* does not dispatch it (so no operation runs and no store entry changes) and no response,
\* success or error, is broadcast for it.
C14_IncompleteEnvelopeIgnored ==
    \A i \in Started :
        NoAction(Request(i)) \/ Request(i).request_id = Undefined =>
            /\ handlers[i].pc = "ignored"
            /\ Responses(i) = {}

----------------------------------------------------------------------------
(* C15 *)

\* C15: with the store accessible, a read whose key field is missing is answered with a
\* null value, whatever store requests were handled before it, writes whose key field
\* was missing included.
C15_MalformedKeyReadsNull ==
    \A j \in Started :
        /\ Request(j).action = "get_localstorage"
        /\ Request(j).key = Undefined
        /\ storageAvailable
        => /\ Cardinality(Responses(j)) = 1
           /\ \A n \in Responses(j) :
                 sent[n].msg.action = "localstorage_value" /\ sent[n].msg.value = Null

----------------------------------------------------------------------------
(* C16 *)

\* the calls the requester has made
Calls == 1..Len(requester.calls)

\* the correlation id of call i
CallId(i) == requester.calls[i].request.request_id

\* the positions in the requester's inbox of the responses that carry the id of call i
Arrivals(i) ==
    {x \in 1..Len(requester.received) : sent[requester.received[x]].msg.request_id = CallId(i)}

\* C16: a call resolves only with the response to its own request (the response carries
\* its correlation id and the success kind of its action and, for an asset, the text
\* served) and its table entry is removed then; and the step that removes one entry
\* leaves every other entry and its pending call as they were, in whatever order the
\* responses arrive.
C16_IndependentResolution ==
    /\ [](\A i \in Calls :
            LET c == requester.calls[i]
            IN c.state = "resolved" =>
                  /\ c.result.request_id = CallId(i)
                  /\ c.result.action = SuccessKind(c.request.action)
                  /\ c.request.action \in BundleActions =>
                        c.result.bundle = served[getExtensionStaticUrl(Getter(c.request.action).file)]
                  /\ CallId(i) \notin requester.table)
    /\ [][\A id \in requester.table \ requester'.table :
            \A other \in requester.table \ {id} :
                /\ other \in requester'.table
                /\ requester'.calls[IdIndex(other)] = requester.calls[IdIndex(other)]]_vars

\* two calls were pending at once, the response to the second arrived before the response
\* to the first, and each call resolved with its own result
C16_Witness ==
    /\ Len(requester.calls) = 2
    /\ requester.calls[2].concurrent = {CallId(1)}
    /\ requester.calls[1].state = "resolved" /\ requester.calls[1].result.request_id = CallId(1)
    /\ requester.calls[2].state = "resolved" /\ requester.calls[2].result.request_id = CallId(2)
    /\ \E x \in Arrivals(2) : \A y \in Arrivals(1) : x < y
    /\ requester.table = {}

----------------------------------------------------------------------------
(* C17 *)

----------------------------------------------------------------------------
(* C18 *)

\* the broadcasts of the request of call i: still in flight, or delivered to the responder
Broadcasts(i) ==
    Cardinality({x \in 1..Len(requester.outbox) : requester.outbox[x].request_id = CallId(i)})
    + Cardinality({h \in Started : Request(h).request_id = CallId(i)})

\* C18: a call rejected otherwise than by its timeout was rejected with the message of
\* an error response that carries its id, as the responder wrote it; a call never
\* resolves with an error response; and the request of a call is broadcast once at most.
C18_ErrorRejectsVerbatim ==
    \A i \in Calls :
        LET c == requester.calls[i]
        IN /\ c.state = "rejected" /\ c.error # TimeoutErrorMessage =>
                 /\ \E x \in Arrivals(i) :
                       LET n == requester.received[x]
                       IN /\ sent[n].msg.action = "error"
                          /\ sent[n].msg.error = c.error
                          /\ Request(sent[n].by).request_id = CallId(i)
                 /\ c.request.action = "frobnicate" => c.error = "Unknown action: frobnicate"
                 /\ c.request.action = "get_bpmn_moddle_bundle" =>
                       c.error \in {NetworkErrorMessage,
                                    "Failed to fetch bpmn-moddle bundle: 404 Not Found"}
           /\ c.state = "resolved" => c.result.action # "error"
           /\ Broadcasts(i) <= 1

\* a call of an unknown operation and a call whose fetch failed were rejected with the
\* responder's messages, their requests delivered once
C18_Witness ==
    \E i, j \in Calls :
        /\ requester.calls[i].state = "rejected"
        /\ requester.calls[i].error = "Unknown action: frobnicate"
        /\ requester.calls[j].state = "rejected"
        /\ requester.calls[j].error = "Failed to fetch bpmn-moddle bundle: 404 Not Found"
        /\ Broadcasts(i) = 1 /\ Broadcasts(j) = 1

----------------------------------------------------------------------------
(* C19 *)

\* C19: the kind of every response is the success kind fixed for the action of its
\* request, or 'error': it is the success kind exactly when the action is recognized and
\* the handler did not fail, so no request is answered with another operation's kind.
C19_KindFollowsAction ==
    \A n \in 1..Len(sent) :
        LET i == sent[n].by
            kind == sent[n].msg.action
        IN /\ kind \in {SuccessKind(Request(i).action), "error"}
           /\ kind = "error" <=> Request(i).action \notin RecognizedActions \/ Failed(i)

\* the dmn bundle was answered with its own kind, a failed bpmn fetch and an unknown
\* action with 'error'
C19_Witness ==
    \E n, m, l \in 1..Len(sent) :
        /\ Request(sent[n].by).action = "get_dmn_moddle_bundle"
        /\ sent[n].msg.action = "dmn_moddle_bundle"
        /\ Request(sent[m].by).action = "get_bpmn_moddle_bundle"
        /\ sent[m].msg.action = "error"
        /\ Request(sent[l].by).action = "frobnicate"
        /\ sent[l].msg.action = "error"

----------------------------------------------------------------------------
(* C20 *)

\* the correlation ids of the requests this responder has received
RequestIds == {Request(i).request_id : i \in {i \in Started : IsRequest(handlers[i])}}

\* C20: with two responders attached, neither answers a response of the other; each
\* request is answered once at most by each of them; and the channel carries no more
\* responses than two per request, so it falls silent.
C20_ResponsesNotHandled ==
    /\ \A i \in Started : ~IsRequest(handlers[i]) => Responses(i) = {}
    /\ \A x \in 1..Len(peer.handled) : ~IsRequest(peer.handled[x]) => ~peer.handled[x].answered
    /\ \A id \in RequestIds :
          /\ Cardinality({n \in 1..Len(sent) : sent[n].msg.request_id = id}) <= 1
          /\ Cardinality({x \in 1..Len(PeerSent) : PeerSent[x].response.request_id = id}) <= 1
    /\ Len(sent) + Len(PeerSent) <= 2 * Cardinality(RequestIds)

----------------------------------------------------------------------------
(* C21 *)

\* C21: a request that does not need a fetch (a store request, the liveness check, an
\* unknown action, an asset already cached) is answered in the step that delivers it,
\* its response being the next one broadcast after its arrival, whatever fetches are
\* pending then; a request for an uncached asset has its own fetch issued at its arrival.
C21_NotBlockedByFetch ==
    \A j \in Started :
        Dispatched(Request(j)) =>
            IF handlers[j].fetch = "none"
            THEN /\ Cardinality(Responses(j)) = 1
                 /\ \A n \in Responses(j) : n = handlers[j].seen + 1
            ELSE Request(j).action \in BundleActions

\* while the first request is still suspended at its fetch, a store write that arrived
\* after it has been answered, and so has a request for another asset, fetch included
C21_Witness ==
    \E i, j, k \in Started :
        /\ i < j /\ i < k
        /\ handlers[i].pc = "await_fetch"
        /\ Request(j).action = "set_localstorage" /\ Responses(j) # {}
        /\ Request(k).action \in BundleActions /\ Request(k).action # Request(i).action
        /\ handlers[k].fetch = "ok" /\ Responses(k) # {}

----------------------------------------------------------------------------
(* C22 *)

\* the acknowledged writes and deletes of key k handled before request j
Effects(j, k) ==
    {l \in 1..(j - 1) :
        /\ ToString(Request(l).key) = ToString(k)
        /\ WriteAcknowledged(l) \/ DeleteAcknowledged(l)}

\* the value key k holds when request j is handled, by the order of arrival
ValueBefore(j, k) ==
    IF Effects(j, k) = {} THEN Null
    ELSE LET last == CHOOSE l \in Effects(j, k) : \A o \in Effects(j, k) : o <= l
         IN IF WriteAcknowledged(last) THEN ToString(Request(last).value) ELSE Null

\* C22: every store request is applied and answered in the step that delivers it (its
\* response is the next one broadcast), so the store responses are in arrival order and
\* a read returns what the writes and deletes that arrived before it left, however many
\* fetches are pending; and the store changes only in the delivery step of a write or a
\* delete, which also broadcasts the response.
C22_StoreOrderedByArrival ==
    /\ [](\A j \in Started :
            Dispatched(Request(j)) /\ Request(j).action \in StoreActions =>
                /\ Cardinality(Responses(j)) = 1
                /\ \A n \in Responses(j) :
                      /\ n = handlers[j].seen + 1
                      /\ sent[n].msg.action = "localstorage_value" =>
                            sent[n].msg.value = ValueBefore(j, Request(j).key))
    /\ [](\A n, m \in 1..Len(sent) :
            /\ n < m
            /\ Request(sent[n].by).action \in StoreActions
            /\ Request(sent[m].by).action \in StoreActions
            => sent[n].by < sent[m].by)
    /\ [][localStorage' # localStorage =>
            /\ Len(handlers') = Len(handlers) + 1
            /\ handlers'[Len(handlers')].data.action \in {"set_localstorage", "remove_localstorage"}
            /\ Len(sent') = Len(sent) + 1
            /\ sent'[Len(sent')].by = Len(handlers')]_vars

\* with a fetch pending all along, a key was written and then read: both were answered
\* in arrival order and the read returned the value written
C22_Witness ==
    \E i \in Started :
        /\ handlers[i].pc = "await_fetch"
        /\ i + 2 \in Started
        /\ WriteHandled(i + 1, "a", "v")
        /\ Request(i + 2).action = "get_localstorage" /\ Request(i + 2).key = "a"
        /\ \E n \in Responses(i + 2) : sent[n].msg.value = "v" /\ n = 2

----------------------------------------------------------------------------
(* C23 *)

\* the cache variable and the URL of the asset request i asks for
CacheOf(i) == Getter(Request(i).action).cache
UrlOf(i) == getExtensionStaticUrl(Getter(Request(i).action).file)

\* C23: the caches are constructed empty (null) and populated for good: after a
\* successful fetch of an asset its cache entry is populated, holding the text fetched,
\* in every later state; and no step, whatever request it handles and however a fetch
\* ends, resets or changes a populated entry.
C23_CacheNeverCleared ==
    /\ [](\A i \in Started :
            handlers[i].fetch = "ok" =>
                cache[CacheOf(i)] # Null /\ cache[CacheOf(i)] = served[UrlOf(i)])
    /\ [][\A c \in CacheNames : cache[c] # Null => cache'[c] = cache[c]]_vars

\* an asset was fetched; after its response a fetch of the same asset, issued before,
\* failed, and a store write was handled: the entry still holds the text
C23_Witness ==
    \E i, j, k \in Started :
        /\ handlers[i].fetch = "ok"
        /\ Request(j).action = Request(i).action
        /\ handlers[j].fetch \in {"http_error", "network_error"}
        /\ \A n \in Responses(i) : \A m \in Responses(j) : n < m
        /\ Request(k).action = "set_localstorage"
        /\ \A n \in Responses(i) : n <= handlers[k].seen
        /\ Truthy(cache[CacheOf(i)])

----------------------------------------------------------------------------
(* C24 *)

\* the fetch of request i has failed
FetchFailed(i) == handlers[i].fetch \in {"http_error", "network_error"}

\* C24: the step in which a fetch fails changes no cache entry; and a request for an
\* asset that arrives after an earlier request for it was answered with an error, no
\* fetch of that asset having succeeded by then, issues a fetch of its own and, if that
\* fetch succeeds, is answered with the text served.
C24_FailureNotCached ==
    /\ [][\A i \in Started :
            handlers[i].pc = "await_fetch" /\ FetchFailed(i)' => cache' = cache]_vars
    /\ [](\A i, j \in Started :
            /\ i < j
            /\ Request(i).action \in BundleActions
            /\ Request(j).action = Request(i).action
            /\ FetchFailed(i)
            /\ \A n \in Responses(i) : n <= handlers[j].seen
            /\ \A k \in Started :
                  Request(k).action = Request(i).action /\ handlers[k].fetch = "ok" =>
                      \A n \in Responses(k) : n > handlers[j].seen
            => /\ handlers[j].fetch # "none"
               /\ handlers[j].fetch = "ok" =>
                     \A n \in Responses(j) :
                         /\ sent[n].msg.action = SuccessKind(Request(j).action)
                         /\ sent[n].msg.bundle = served[UrlOf(j)])

\* a request was answered with the error of its fetch; the next request for the same
\* asset fetched again and was answered with the text
C24_Witness ==
    \E i, j \in Started :
        /\ i < j
        /\ Request(i).action = "get_dmn_moddle_bundle" /\ Request(j).action = "get_dmn_moddle_bundle"
        /\ FetchFailed(i)
        /\ \A n \in Responses(i) : n <= handlers[j].seen
        /\ handlers[j].fetch = "ok"
        /\ \E n \in Responses(j) : Truthy(sent[n].msg.bundle)
        /\ fetchCount[UrlOf(j)] = 2

----------------------------------------------------------------------------
(* C25 *)

\* the requests whose handler has issued a fetch of url
Fetchers(url) ==
    {i \in Started :
        /\ Dispatched(Request(i))
        /\ Request(i).action \in BundleActions
        /\ handlers[i].fetch # "none"
        /\ UrlOf(i) = url}

\* C25: the fetch calls issued for a URL are as many as the requests that found its
\* cache entry empty, one each and none for a request served from the cache; and a
\* request whose fetch has failed has ended with its one error response.
C25_NoRetry ==
    /\ \A u \in Urls : fetchCount[u] = Cardinality(Fetchers(u))
    /\ \A i \in Started :
          FetchFailed(i) =>
              /\ handlers[i].pc = "done"
              /\ Cardinality(Responses(i)) = 1
              /\ \A n \in Responses(i) : sent[n].msg.action = "error"

\* one fetch succeeded, a later request for the asset was served from the cache, and a
\* fetch of another asset failed: two fetch calls for three requests
C25_Witness ==
    \E i, j, k \in Started :
        /\ i < j
        /\ handlers[i].fetch = "ok"
        /\ Request(j).action = Request(i).action /\ handlers[j].fetch = "none"
        /\ Responses(j) # {}
        /\ FetchFailed(k) /\ Request(k).action \in BundleActions
        /\ Request(k).action # Request(i).action
        /\ Fetches = 2

----------------------------------------------------------------------------
(* C26 *)

\* the step delivers a message whose handler took the catch clause
FailedDelivery ==
    /\ Len(handlers') = Len(handlers) + 1
    /\ handlers'[Len(handlers')].threw

\* C26: a store request whose handler fails (the store is inaccessible, or the write is
\* rejected for its quota) is answered once, with the error response that carries the
\* message of the failure and the request's id; and the step that handles it leaves
\* every stored key and value as it was.
C26_StoreFailureIsError ==
    /\ [](\A i \in Started :
            Request(i).action \in StoreActions /\ Failed(i) =>
                /\ Cardinality(Responses(i)) = 1
                /\ \A n \in Responses(i) :
                      /\ sent[n].msg.action = "error"
                      /\ sent[n].msg.request_id = Request(i).request_id
                      /\ sent[n].msg.error =
                            IF storageAvailable THEN QuotaErrorMessage ELSE SecurityErrorMessage)
    /\ [][FailedDelivery => localStorage' = localStorage]_vars

\* a key held a value when a second write to it was rejected for the quota: the error
\* was answered and the key still holds the first value
C26_Witness ==
    \E i \in Started :
        /\ i + 1 = Len(handlers)
        /\ WriteHandled(i, "a", "v")
        /\ Request(i + 1).action = "set_localstorage" /\ Request(i + 1).key = "a"
        /\ Request(i + 1).value = ""
        /\ Failed(i + 1)
        /\ \E n \in Responses(i + 1) : sent[n].msg.error = QuotaErrorMessage
        /\ localStorage["a"] = "v"

----------------------------------------------------------------------------
(* C27 *)

\* C27: a message is ignored exactly when it has no action field: every message that
\* has one, the empty string included, is dispatched and, once its handler has ended,
\* has its one response.
C27_IgnoredOnlyWithoutAction ==
    \A i \in Started :
        /\ handlers[i].pc = "ignored" <=> NoAction(Request(i))
        /\ ~NoAction(Request(i)) /\ handlers[i].pc # "await_fetch" =>
              Cardinality(Responses(i)) = 1

----------------------------------------------------------------------------
(* C28 *)

\* the message whose delivery the step is
Delivery == handlers'[Len(handlers')].data

\* C28: the delivery of a read, a listing, a liveness check or an unrecognized action
\* changes no stored key or value and no cache entry; the delivery of a write or a delete
\* changes at most the entry of its own key, and no cache entry.
C28_OnlyOwnKeyChanges ==
    [][Len(handlers') = Len(handlers) + 1 /\ Dispatched(Delivery) =>
          /\ Delivery.action \notin BundleActions => cache' = cache
          /\ Delivery.action \notin BundleActions \cup {"set_localstorage", "remove_localstorage"} =>
                localStorage' = localStorage
          /\ Delivery.action \in {"set_localstorage", "remove_localstorage"} =>
                \A k \in StoreKeys \ {ToString(Delivery.key)} :
                    localStorage'[k] = localStorage[k]]_vars

\* two keys were written and one of them deleted: the other still holds its value
C28_Witness ==
    /\ Len(handlers) = 3
    /\ WriteHandled(1, "a", "v")
    /\ WriteHandled(2, "", "v")
    /\ DeleteHandled(3, "a")
    /\ localStorage["a"] = Null
    /\ localStorage[""] = "v"

----------------------------------------------------------------------------
(* C29 *)

\* the URL whose text the cache variable c is for
UrlOfCache(c) ==
    getExtensionStaticUrl(Getter(CHOOSE a \in BundleActions : Getter(a).cache = c).file)

\* C29: a request for an asset that is answered with a bundle is answered with the text
\* served at that asset's own URL; a populated cache entry holds the text of its own
\* asset; and a cache entry changes only in the step that ends a successful fetch of a
\* request for its asset, however requests for different assets interleave.
C29_CachesIndependent ==
    /\ [](\A i \in Started :
            Dispatched(Request(i)) /\ Request(i).action \in BundleActions =>
                \A n \in Responses(i) :
                    sent[n].msg.action # "error" => sent[n].msg.bundle = served[UrlOf(i)])
    /\ [](\A c \in CacheNames : cache[c] # Null => cache[c] = served[UrlOfCache(c)])
    /\ [][\A c \in CacheNames :
            cache'[c] # cache[c] =>
                \E i \in Started :
                    /\ handlers[i].pc = "await_fetch" /\ handlers'[i].fetch = "ok"
                    /\ CacheOf(i) = c]_vars

\* two assets were fetched at once and the fetches ended in reverse order; a third
\* request was served from the cache: each got the text of its own asset
C29_Witness ==
    /\ Len(handlers) = 3
    /\ Request(1).action = "get_dmn_moddle_bundle" /\ handlers[1].fetch = "ok"
    /\ Request(2).action = "get_bpmn_js_differ_bundle" /\ handlers[2].fetch = "ok"
    /\ handlers[2].seen = 0
    /\ \E n \in Responses(1), m \in Responses(2) : m < n
    /\ Request(3).action = "get_bpmn_js_differ_bundle" /\ handlers[3].fetch = "none"
    /\ \E n \in Responses(3) :
          sent[n].msg.bundle = "source of /extensions/@operaton/operaton-extension/static/bpmn-js-differ.umd.js"
    /\ Truthy(cache["dmnModdleBundleCache"])
    /\ cache["dmnModdleBundleCache"] # cache["bpmnJsDifferBundleCache"]

----------------------------------------------------------------------------
(* C30 *)

\* C30: a request for an asset that arrives after a fetch of that asset succeeded with
\* an empty text, and was answered, issues no fetch and is answered from the cache.
C30_EmptyBodyCached ==
    \A i, j \in Started :
        /\ i < j
        /\ Request(i).action \in BundleActions
        /\ Request(j).action = Request(i).action
        /\ handlers[i].fetch = "ok"
        /\ served[UrlOf(i)] = ""
        /\ \A n \in Responses(i) : n <= handlers[j].seen
        => /\ handlers[j].fetch = "none"
           /\ Cardinality(Responses(j)) = 1
           /\ \A n \in Responses(j) : sent[n].msg.bundle = ""

----------------------------------------------------------------------------
(* C31 *)

\* debugging is enabled for an activation: the build is a debug build, or the stored item
\* 'operaton-debug' reads 'true'
DebuggingEnabled ==
    activation.DEBUG_BUILD \/ (storageAvailable /\ activation.item = "true")

\* the responses that carry the correlation id of the self-test
SelfTestResponses == {n \in 1..Len(sent) : sent[n].msg.request_id = "self-test"}

\* the self-test message was posted once and answered with one pong that carries its id
SelfTestAnswered ==
    /\ activation.posted = 1
    /\ activation.handler \in Started
    /\ \E n \in 1..Len(sent) :
          /\ Responses(activation.handler) = {n}
          /\ SelfTestResponses = {n}
          /\ sent[n].msg.action = "pong"

\* C31: with debugging disabled the activation posts no self-test message, no response
\* carries the id 'self-test', and every response belongs to a received, dispatched
\* request, one response per request at most; with debugging enabled the self-test posts
\* one message at most, the ping with request_id 'self-test', and once that is delivered
\* the responder has answered it with exactly one pong carrying that id; the step that
\* posts the ping is no broadcast of the responder, whose every broadcast is one response
\* of a handler of a received message; and with debugging enabled the ping is eventually
\* posted and answered.
C31_SelfTestOnlyWhenDebugging ==
    /\ [](~DebuggingEnabled =>
            /\ activation.posted = 0 /\ activation.handler = 0
            /\ activation.selfTest = "none"
            /\ SelfTestResponses = {}
            /\ \A n \in 1..Len(sent) : sent[n].by \in Started /\ Dispatched(Request(sent[n].by))
            /\ \A i \in Started : Cardinality(Responses(i)) <= 1)
    /\ [](DebuggingEnabled =>
            /\ activation.posted <= 1
            /\ activation.selfTest = "scheduled" <=> activation.posted = 0
            /\ SelfTestResponses \subseteq Responses(activation.handler)
            /\ activation.handler # 0 =>
                  /\ Request(activation.handler) = SelfTestPing
                  /\ SelfTestAnswered)
    /\ [][/\ activation'.posted # activation.posted => sent' = sent /\ handlers' = handlers
          /\ sent' # sent =>
                /\ Len(sent') = Len(sent) + 1
                /\ sent'[Len(sent')].by \in 1..Len(handlers')
                /\ SubSeq(sent', 1, Len(sent)) = sent]_vars
    /\ (DebuggingEnabled ~> SelfTestAnswered)

\* a production build activated with the item 'operaton-debug' stored as 'true': the
\* self-test ping was delivered after a request had been answered, and answered with the
\* one pong that carries the id 'self-test'
C31_Witness ==
    /\ ~activation.DEBUG_BUILD /\ activation.item = "true"
    /\ activation.handler > 1
    /\ Cardinality(Responses(1)) = 1
    /\ SelfTestAnswered

\* a production build activated with the item stored as 'false' served its requests and
\* posted nothing of its own
C31_WitnessDisabled ==
    /\ ~activation.DEBUG_BUILD /\ activation.item = "false" /\ storageAvailable
    /\ Len(handlers) = MaxMsgs /\ Len(sent) = MaxMsgs
    /\ activation.posted = 0

====
